---------------------------- MODULE Spec2Model ----------------------------
(***************************************************************************)
(* A model of src/main.cpp: the sphere ray tracer (Sphere::intersect,      *)
(* trace), the render loop of main and the PPM writer save.                *)
(*                                                                         *)
(* Numbers.  A C++ float is modelled as a fixed-point integer counting     *)
(* ticks of 1/SCALE, so 1.0f is SCALE ticks.  Products and quotients are   *)
(* rounded to the nearest tick, as float arithmetic rounds to the nearest  *)
(* representable value.  IEEE NaN (the 0/0 of vec3::normalize on a zero    *)
(* vector) is the value NaN: it propagates through arithmetic and every    *)
(* ordered comparison with it is false.                                    *)
(*                                                                         *)
(* Two specifications share the variables:                                 *)
(*   TraceSpec  one call of trace(ray, spheres, lights, background, 0),    *)
(*              its arguments drawn from bounded sets;                     *)
(*   Spec       main: the render loop over the image, then save.           *)
(***************************************************************************)
EXTENDS Integers, Sequences, FiniteSets

VARIABLES
    pc,         \* position of the program (TraceSpec: scan/resolved/returned;
                \*   Spec: render/save/done)
    scene,      \* [spheres, lights, background]: the arrays handed to trace
    ray,        \* TraceSpec: the ray handed to trace
    tnear,      \* trace: float tnear (line 115)
    sphere,     \* trace: const Sphere* sphere, an index of spheres, 0 = nullptr
    inters,     \* history: what intersect returned to each iteration of the scan
    shaded,     \* trace: the locals of the shading part (lines 134-164)
    result,     \* trace: the returned colour and which return produced it
    dims,       \* Spec: [w, h], the build's WIDTH and HEIGHT
    px, py,     \* main: the render loop's x and y (lines 228-229)
    canvas,     \* main: the image, canvas[<<row, column>>]
    writes,     \* history: the cells written by the render loop, in order
    si, sj,     \* save: the loops' i and j (lines 180-181)
    out,        \* save: the colour triplets written to the file, in order
    reads       \* history: the image cells save read, in order

vars == <<pc, scene, ray, tnear, sphere, inters, shaded, result,
          dims, px, py, canvas, writes, si, sj, out, reads>>

traceVars == <<ray, tnear, sphere, inters, shaded, result>>
mainVars  == <<dims, px, py, canvas, writes, si, sj, out, reads>>

---------------------------------------------------------------------------
(* Bounds of the model *)

\* ticks per unit: the resolution of the fixed-point floats
SCALE == 100

\* light intensities drawn for trace are 1.0 .. MaxIntensity.0
MaxIntensity == 2

\* image sides drawn for main are 1 .. MaxDim
MaxDim == 3

---------------------------------------------------------------------------
(* float arithmetic *)

\* c hundredths of a unit, in ticks
U(c) == (c * SCALE) \div 100

\* n/d rounded to the nearest integer (d > 0)
Round(n, d) == (2 * n + d) \div (2 * d)

\* IEEE not-a-number
NaN == -1000000000

\* constexpr float INF = 1e6, the "no hit yet" sentinel of trace.  The model's
\* world is scaled down so that the squares of distances on both sides of the
\* sentinel fit 32-bit integers: the sentinel stands at 100 units.
INF == U(10000)

FAdd(a, b) == IF a = NaN \/ b = NaN THEN NaN ELSE a + b
FSub(a, b) == IF a = NaN \/ b = NaN THEN NaN ELSE a - b
FNeg(a)    == IF a = NaN THEN NaN ELSE 0 - a
FMul(a, b) == IF a = NaN \/ b = NaN THEN NaN ELSE Round(a * b, SCALE)
FLt(a, b)  == a # NaN /\ b # NaN /\ a < b
FGt(a, b)  == a # NaN /\ b # NaN /\ a > b

\* std::max(a, b) is (a < b) ? b : a
FMax(a, b) == IF FLt(a, b) THEN b ELSE a

RECURSIVE SqrtSearch(_, _, _)
\* the largest s in lo..hi with s*s <= n (lo*lo <= n)
SqrtSearch(n, lo, hi) ==
    IF lo >= hi THEN lo
    ELSE LET mid == (lo + hi + 1) \div 2
         IN  IF mid * mid <= n THEN SqrtSearch(n, mid, hi)
                               ELSE SqrtSearch(n, lo, mid - 1)

\* the integer nearest to the square root of n >= 0
ISqrt(n) ==
    LET s == SqrtSearch(n, 0, 46340)
    IN  IF n - s * s > s THEN s + 1 ELSE s

\* sqrt of a float: sqrt(a/SCALE) = sqrt(a*SCALE)/SCALE; sqrt of a negative is NaN
FSqrt(a) == IF a = NaN \/ a < 0 THEN NaN ELSE ISqrt(a * SCALE)

---------------------------------------------------------------------------
(* struct vec3: <<x, y, z>> *)

\* vec3(float n)
Splat(n) == <<n, n, n>>

VAdd(a, b) == <<FAdd(a[1], b[1]), FAdd(a[2], b[2]), FAdd(a[3], b[3])>>
VSub(a, b) == <<FSub(a[1], b[1]), FSub(a[2], b[2]), FSub(a[3], b[3])>>
VNeg(a)    == <<FNeg(a[1]), FNeg(a[2]), FNeg(a[3])>>
\* operator *(const float &f)
VScale(a, f) == <<FMul(a[1], f), FMul(a[2], f), FMul(a[3], f)>>
\* operator *(const vec3 &v)
VMul(a, b) == <<FMul(a[1], b[1]), FMul(a[2], b[2]), FMul(a[3], b[3])>>

Dot(a, b) == FAdd(FAdd(FMul(a[1], b[1]), FMul(a[2], b[2])), FMul(a[3], b[3]))

HasNaN(a) == a[1] = NaN \/ a[2] = NaN \/ a[3] = NaN

\* sqrt(x*x + y*y + z*z).  The sum of squares is kept exact under the root, so
\* the magnitude is 0 exactly for the zero vector, as it is for floats.
Magnitude(a) ==
    IF HasNaN(a) THEN NaN
    ELSE ISqrt(a[1] * a[1] + a[2] * a[2] + a[3] * a[3])

\* x /= mag, y /= mag, z /= mag.  No test of mag: a zero vector becomes
\* (0/0, 0/0, 0/0), three NaNs, and the caller goes on.
Normalize(a) ==
    LET mag == Magnitude(a)
        q(c) == IF c = NaN \/ mag = NaN \/ mag = 0 THEN NaN
                ELSE Round(c * SCALE, mag)
    IN  <<q(a[1]), q(a[2]), q(a[3])>>

---------------------------------------------------------------------------
(* struct Ray, Light, Sphere *)

Diffuse == "Diffuse"
Reflect == "Reflect"

MkRay(origin, direction) == [orig |-> origin, dir |-> direction]

MkLight(pos, col, i) == [position |-> pos, color |-> col, intensity |-> i]

MkSphere(c, r, col, mat) ==
    [center |-> c, radius |-> r, color |-> col, material |-> mat]

\* an empty optional<Intersection>
NoHit == [hit |-> FALSE, t0 |-> 0, t1 |-> 0]

Intersect_NoBehindTest(s, r) ==
    LET L   == VSub(s.center, r.orig)
        tca == Dot(L, r.dir)
        d2  == FSub(Dot(L, L), FMul(tca, tca))
        r2  == FMul(s.radius, s.radius)
        thc == FSqrt(FSub(r2, d2))
    IN  IF FGt(d2, r2) THEN NoHit
        ELSE [hit |-> TRUE, t0 |-> FSub(tca, thc), t1 |-> FAdd(tca, thc)]

\* Sphere::intersect
Intersect(s, r) ==
    LET L   == VSub(s.center, r.orig)
        tca == Dot(L, r.dir)
        d2  == FSub(Dot(L, L), FMul(tca, tca))
        r2  == FMul(s.radius, s.radius)
        thc == FSqrt(FSub(r2, d2))
    IN  IF FLt(tca, 0) THEN NoHit
        ELSE IF FGt(d2, r2) THEN NoHit
        ELSE [hit |-> TRUE, t0 |-> FSub(tca, thc), t1 |-> FAdd(tca, thc)]

---------------------------------------------------------------------------
(* trace *)

\* inter->t.first after line 121: t_far stands in for a negative t_near
Effective(inter) == IF FLt(inter.t0, 0) THEN inter.t1 ELSE inter.t0

RECURSIVE ScanFrom_LastWins(_, _, _, _, _)
ScanFrom_LastWins(i, tn, sp, r, spheres) ==
    IF i > Len(spheres) THEN [tnear |-> tn, sphere |-> sp]
    ELSE LET inter == Intersect(spheres[i], r)
             take  == inter.hit /\ ~FGt(Effective(inter), tn)
         IN  ScanFrom_LastWins(i + 1, IF take THEN Effective(inter) ELSE tn,
                               IF take THEN i ELSE sp, r, spheres)

RECURSIVE ScanFrom_NoSubstitute(_, _, _, _, _)
ScanFrom_NoSubstitute(i, tn, sp, r, spheres) ==
    IF i > Len(spheres) THEN [tnear |-> tn, sphere |-> sp]
    ELSE LET inter == Intersect(spheres[i], r)
             take  == inter.hit /\ FLt(inter.t0, tn)
         IN  ScanFrom_NoSubstitute(i + 1, IF take THEN inter.t0 ELSE tn,
                                   IF take THEN i ELSE sp, r, spheres)

RECURSIVE ScanFrom(_, _, _, _, _)
\* the sphere scan (lines 118-127) from iteration i on, with tnear = tn and
\* sphere = sp on entry; array indices are 1-based here
ScanFrom(i, tn, sp, r, spheres) ==
    IF i > Len(spheres) THEN [tnear |-> tn, sphere |-> sp]
    ELSE LET inter == Intersect(spheres[i], r)
             take  == inter.hit /\ FLt(Effective(inter), tn)
         IN  ScanFrom(i + 1, IF take THEN Effective(inter) ELSE tn,
                      IF take THEN i ELSE sp, r, spheres)

\* lines 115-127
Scan(r, spheres) == ScanFrom(1, INF, 0, r, spheres)

\* one iteration of the lights loop (lines 152-163) for the hit point p with
\* normal n on the sphere s
ShadeLight(light, s, p, n, spheres) ==
    LET toLight        == VSub(light.position, p)
        lightDirection == Normalize(toLight)
        shadowRay      == MkRay(VAdd(p, n), lightDirection)
        occluded       == \E j \in 1..Len(spheres) :
                              Intersect(spheres[j], shadowRay).hit
        transmission   == IF occluded THEN Splat(0) ELSE Splat(SCALE)
        lambert        == FMax(0, Dot(n, lightDirection))
    IN  [toLight        |-> toLight,
         lightDirection |-> lightDirection,
         shadowRay      |-> shadowRay,
         occluded       |-> occluded,
         lambert        |-> lambert,
         contribution   |-> VMul(VScale(VMul(s.color, transmission), lambert),
                                 light.color)]

RECURSIVE SumFrom(_, _, _)
\* finalColor += ... over the lights i..
SumFrom(i, acc, perLight) ==
    IF i > Len(perLight) THEN acc
    ELSE SumFrom(i + 1, VAdd(acc, perLight[i].contribution), perLight)

\* lines 134-171: the shading of the hit at distance tn on spheres[sp]
Shade(r, spheres, lights, tn, sp) ==
    LET s        == spheres[sp]
        pointHit == VAdd(r.orig, VScale(r.dir, tn))
        toPoint  == VSub(pointHit, s.center)
        unit     == Normalize(toPoint)
        inside   == FGt(Dot(r.dir, unit), 0)
        normal   == IF inside THEN VNeg(unit) ELSE unit
        perLight == IF s.material = Diffuse
                    THEN [i \in 1..Len(lights) |->
                             ShadeLight(lights[i], s, pointHit, normal, spheres)]
                    ELSE <<>>
    IN  [pointHit   |-> pointHit,
         toPoint    |-> toPoint,
         normalHit  |-> normal,
         inside     |-> inside,
         lights     |-> perLight,
         finalColor |-> SumFrom(1, Splat(0), perLight)]

\* constexpr vec3 trace(ray, spheres, lights, background, depth)
trace(r, spheres, lights, background) ==
    LET won == Scan(r, spheres)
    IN  IF won.sphere = 0 THEN background
        ELSE Shade(r, spheres, lights, won.tnear, won.sphere).finalColor

---------------------------------------------------------------------------
(* The arguments drawn for one call of trace.  The world lies along the x    *)
(* axis; lengths are written in hundredths of a unit.                        *)

P3(x, y, z) == <<U(x), U(y), U(z)>>

\* A      the sphere most rays hit: radius 2 about the origin
\* B      a small sphere just off A's surface, at x in [-2.8, -2.2]
\* D      a sphere further out, at x in [-8, -6], of a material trace does not shade
\* E      a sphere whose surface meets A's at x = -2 (equal hit distances)
\* G      a sphere beyond the INF sentinel
\* Z      the default-constructed Sphere(): radius 0 at the origin
SphereA == MkSphere(P3(0, 0, 0), U(200), P3(80, 60, 40), Diffuse)
SphereB == MkSphere(P3(-250, 0, 0), U(30), P3(100, 100, 100), Diffuse)
SphereD == MkSphere(P3(-700, 0, 0), U(100), P3(100, 100, 100), Reflect)
SphereE == MkSphere(P3(100, 0, 0), U(300), P3(20, 40, 60), Diffuse)
SphereG == MkSphere(P3(12000, 0, 0), U(100), P3(100, 100, 100), Diffuse)
SphereZ == MkSphere(P3(0, 0, 0), 0, P3(50, 50, 50), Diffuse)

SphereChoices == {SphereA, SphereB, SphereD, SphereE, SphereG, SphereZ}

\* array<Sphere, 4>
NumSpheres == 4
\* array<Light, 1>
NumLights == 1

SphereArrays == [1..NumSpheres -> SphereChoices]

\* rays along the x axis from outside and inside the spheres, and one along y
\* that passes every sphere by
RayChoices ==
    { MkRay(P3(-210, 0, 0), P3(100, 0, 0)),
      MkRay(P3(-1000, 0, 0), P3(100, 0, 0)),
      MkRay(P3(50, 0, 0), P3(100, 0, 0)),
      MkRay(P3(50, 0, 0), P3(-100, 0, 0)),
      MkRay(P3(-500, -500, 0), P3(0, 100, 0)) }

\* a light far out on the x axis, and one on A's surface at x = -2
LightChoices ==
    { MkLight(pos, P3(100, 90, 80), i * SCALE) :
        pos \in {P3(-1200, 0, 0), P3(-200, 0, 0)}, i \in 1..MaxIntensity }

LightArrays == [1..NumLights -> LightChoices]

Background == P3(20, 30, 40)

NoResult == [color |-> Splat(0), from |-> "none"]
NoShade  == [lights |-> <<>>]

\* main before the render loop; dims 0 x 0 marks a run of TraceSpec
IdleMain ==
    /\ dims = [w |-> 0, h |-> 0]
    /\ px = 0 /\ py = 0
    /\ canvas = << >>
    /\ writes = << >>
    /\ si = 0 /\ sj = 0
    /\ out = << >>
    /\ reads = << >>

TraceInit ==
    /\ pc = "scan"
    /\ scene \in [spheres : SphereArrays, lights : LightArrays,
                  background : {Background}]
    /\ ray \in RayChoices
    /\ tnear = INF
    /\ sphere = 0
    /\ inters = << >>
    /\ shaded = NoShade
    /\ result = NoResult
    /\ IdleMain

\* lines 115-127
TraceScan ==
    /\ pc = "scan"
    /\ LET won == Scan(ray, scene.spheres)
       IN  tnear' = won.tnear /\ sphere' = won.sphere
    /\ inters' = [i \in 1..Len(scene.spheres) |-> Intersect(scene.spheres[i], ray)]
    /\ pc' = "resolved"
    /\ UNCHANGED <<scene, ray, shaded, result, mainVars>>

\* lines 130-132
TraceBackground ==
    /\ pc = "resolved"
    /\ sphere = 0
    /\ result' = [color |-> scene.background, from |-> "background"]
    /\ pc' = "returned"
    /\ UNCHANGED <<scene, ray, tnear, sphere, inters, shaded, mainVars>>

\* lines 134-171
TraceShade ==
    /\ pc = "resolved"
    /\ sphere # 0
    /\ shaded' = Shade(ray, scene.spheres, scene.lights, tnear, sphere)
    /\ result' = [color |-> shaded'.finalColor, from |-> "shade"]
    /\ pc' = "returned"
    /\ UNCHANGED <<scene, ray, tnear, sphere, inters, mainVars>>

TraceNext == TraceScan \/ TraceBackground \/ TraceShade

TraceSpec == TraceInit /\ [][TraceNext]_vars

---------------------------------------------------------------------------
(* main: the camera, the render loop and save *)

\* static constexpr float angle = tan(M_PI * 0.5 * fov / 180.) with fov = 30:
\* tan(15 degrees) = 0.26795
ANGLE == Round(26795 * SCALE, 100000)

\* the ray of pixel (x, y) of a w x h image (lines 220-233)
PrimaryRay(x, y, w, h) ==
    LET invWidth    == Round(SCALE * 1, w)
        invHeight   == Round(SCALE * 1, h)
        aspectratio == Round(w * SCALE, h)
        xc == x * SCALE + SCALE \div 2
        yc == y * SCALE + SCALE \div 2
        xx == FMul(FMul(FSub(2 * FMul(xc, invWidth), SCALE), ANGLE), aspectratio)
        yy == FMul(FSub(SCALE, 2 * FMul(yc, invHeight)), ANGLE)
    IN  MkRay(Splat(0), Normalize(<<xx, yy, 0 - SCALE>>))

\* The spheres of main (lines 210-213).  The floor sphere, of radius 10000 four
\* units under the camera in the source, is given the radius 100 (and the
\* centre that keeps its top four units under the camera) so that its squared
\* radius fits 32-bit integers.
MainSpheres ==
    << MkSphere(P3(0, -10400, -2000), U(10000), P3(20, 20, 25), Diffuse),
       MkSphere(P3(200, -250, -2500), U(150), P3(100, 75, 45), Diffuse),
       MkSphere(P3(-500, -100, -3500), U(300), P3(75, 45, 45), Diffuse),
       MkSphere(P3(500, 100, -4500), U(500), P3(45, 45, 75), Diffuse) >>

\* A second scene, with spheres close enough to the camera that a small image
\* shows them
CloseSpheres ==
    << MkSphere(P3(0, -10400, -2000), U(10000), P3(20, 20, 25), Diffuse),
       MkSphere(P3(0, -100, -1000), U(250), P3(100, 75, 45), Diffuse),
       MkSphere(P3(-250, 150, -1200), U(150), P3(75, 45, 45), Diffuse),
       MkSphere(P3(300, 200, -1500), U(200), P3(45, 45, 75), Diffuse) >>

\* The light of main (line 216)
MainLights == << MkLight(P3(-1000, 2000, -1000), P3(100, 100, 100), 1 * SCALE) >>

\* static constexpr vec3 background = { 0, 0, 0 }, and a background that is
\* not the colour of an empty cell
MainBackgrounds == {P3(0, 0, 0), P3(20, 30, 40)}

\* std::array<std::array<vec3, WIDTH>, HEIGHT>: the cells <<row, column>>
Cells(w, h) == (0..(h - 1)) \X (0..(w - 1))

Cell_Transposed(x, y) == <<x, y>>

\* canvas[y][x]
Cell(x, y) == <<y, x>>

\* n/d truncated toward zero (d > 0), the conversion of a double to int
Trunc(n, d) == IF n >= 0 THEN n \div d ELSE 0 - ((0 - n) \div d)

\* int red = min(color.x * 255.0, 255.0)
EncodeChannel(c) ==
    IF 255 * SCALE < c * 255 THEN 255 ELSE Trunc(c * 255, SCALE)

Encode(color) ==
    <<EncodeChannel(color[1]), EncodeChannel(color[2]), EncodeChannel(color[3])>>

\* What a read of image[i][j] outside the w x h array can yield.  The read is
\* undefined: it may yield the cell that lies i*w + j cells into the image's
\* storage, if there is one, or whatever else lies in memory
Junk == P3(-50, 250, 50)
OutOfBoundsValues(image, i, j, w, h) ==
    {Junk, Splat(0)} \cup
    (IF i * w + j < w * h THEN {image[<<(i * w + j) \div w, (i * w + j) % w>>]}
                          ELSE {})

\* a run of Spec never calls trace as a step of its own
IdleTrace ==
    /\ ray = MkRay(Splat(0), P3(100, 0, 0))
    /\ tnear = INF
    /\ sphere = 0
    /\ inters = << >>
    /\ shaded = NoShade
    /\ result = NoResult

Init ==
    /\ pc = "render"
    /\ scene \in [spheres : {MainSpheres, CloseSpheres}, lights : {MainLights},
                  background : MainBackgrounds]
    /\ dims \in [w : 1..MaxDim, h : 1..MaxDim]
    /\ px = 0 /\ py = 0
    /\ canvas = [c \in Cells(dims.w, dims.h) |-> Splat(0)]
    /\ writes = << >>
    /\ si = 0 /\ sj = 0
    /\ out = << >>
    /\ reads = << >>
    /\ IdleTrace

\* one iteration of the render loop (lines 228-235)
RenderPixel ==
    /\ pc = "render"
    /\ py < dims.h /\ px < dims.w
    /\ canvas' = [canvas EXCEPT ![Cell(px, py)] =
                      trace(PrimaryRay(px, py, dims.w, dims.h),
                            scene.spheres, scene.lights, scene.background)]
    /\ writes' = Append(writes, <<px, py>>)
    /\ IF px + 1 < dims.w THEN px' = px + 1 /\ py' = py
                          ELSE px' = 0 /\ py' = py + 1
    /\ UNCHANGED <<pc, scene, traceVars, dims, si, sj, out, reads>>

\* the render loop is over: save("Picture.ppm", image) writes the header
\* (lines 240, 176-178)
CallSave ==
    /\ pc = "render"
    /\ py = dims.h
    /\ pc' = "save"
    /\ si' = 0 /\ sj' = 0
    /\ UNCHANGED <<scene, traceVars, dims, px, py, canvas, writes, out, reads>>

\* one iteration of save's loops (lines 180-189): i runs to WIDTH and indexes
\* the rows, j runs to HEIGHT and indexes the columns
SavePixel ==
    /\ pc = "save"
    /\ si < dims.w /\ sj < dims.h
    /\ LET inBounds == si < dims.h /\ sj < dims.w
       IN  \E color \in IF inBounds THEN {canvas[<<si, sj>>]}
                        ELSE OutOfBoundsValues(canvas, si, sj, dims.w, dims.h) :
               /\ out' = Append(out, Encode(color))
               /\ reads' = Append(reads, [row |-> si, col |-> sj,
                                          inBounds |-> inBounds, color |-> color])
    /\ IF sj + 1 < dims.h THEN si' = si /\ sj' = sj + 1
                          ELSE si' = si + 1 /\ sj' = 0
    /\ UNCHANGED <<pc, scene, traceVars, dims, px, py, canvas, writes>>

\* the footer and the close (lines 192-193)
SaveFooter ==
    /\ pc = "save"
    /\ si = dims.w
    /\ pc' = "done"
    /\ UNCHANGED <<scene, traceVars, dims, px, py, canvas, writes, si, sj, out, reads>>

Next == RenderPixel \/ CallSave \/ SavePixel \/ SaveFooter

Spec == Init /\ [][Next]_vars

---------------------------------------------------------------------------
(* Properties of trace, checked under TraceSpec *)

Zero3 == <<0, 0, 0>>

Shaded == pc = "returned" /\ result.from = "shade"

Winner == scene.spheres[sphere]

\* C1: for a Diffuse winning sphere, every light that is not occluded adds
\* albedo * max(0, N.L) * light.color * light.intensity to the colour, and the
\* returned colour is the sum of the lights' contributions.
C1_IntensityScales ==
    (Shaded /\ Winner.material = Diffuse) =>
        /\ \A i \in 1..Len(scene.lights) :
              LET l == shaded.lights[i]
                  lambert == FMax(0, Dot(shaded.normalHit, l.lightDirection))
              IN  ~l.occluded =>
                      l.contribution =
                          VScale(VMul(VScale(Winner.color, lambert),
                                      scene.lights[i].color),
                                 scene.lights[i].intensity)
        /\ result.color = SumFrom(1, Zero3, shaded.lights)

\* the sphere s is placed between the points p and q: its centre lies on the
\* segment from p to q and both ends are outside it
Between(s, p, q) ==
    LET d == VSub(q, p)
        w == VSub(s.center, p)
        v == VSub(s.center, q)
        wd == w[1] * d[1] + w[2] * d[2] + w[3] * d[3]
    IN  /\ ~HasNaN(p) /\ ~HasNaN(q)
        /\ w[2] * d[3] - w[3] * d[2] = 0
        /\ w[3] * d[1] - w[1] * d[3] = 0
        /\ w[1] * d[2] - w[2] * d[1] = 0
        /\ 0 < wd /\ wd < d[1] * d[1] + d[2] * d[2] + d[3] * d[3]
        /\ w[1] * w[1] + w[2] * w[2] + w[3] * w[3] > s.radius * s.radius
        /\ v[1] * v[1] + v[2] * v[2] + v[3] * v[3] > s.radius * s.radius

\* C2: a sphere placed between the hit point and a light reduces that light's
\* contribution to exactly zero.
C2_BlockerShadows ==
    (Shaded /\ Winner.material = Diffuse) =>
        \A i \in 1..Len(scene.lights) : \A j \in 1..Len(scene.spheres) :
            Between(scene.spheres[j], shaded.pointHit, scene.lights[i].position)
                => shaded.lights[i].contribution = Zero3

\* the spheres whose intersect reported a hit to the scan
Hitting == {i \in 1..Len(inters) : inters[i].hit}

\* C3: the sphere the scan selects has the minimum effective hit distance
\* (t_near, or t_far when t_near is negative) of all spheres that report an
\* intersection, and of the spheres at that distance it is the first in the
\* array; a hit below the sentinel always selects a sphere.
C3_NearestFirstWins ==
    pc # "scan" =>
        /\ sphere # 0 =>
              /\ sphere \in Hitting
              /\ tnear = Effective(inters[sphere])
              /\ \A j \in Hitting :
                    /\ tnear <= Effective(inters[j])
                    /\ Effective(inters[j]) = tnear => sphere <= j
        /\ (\E j \in Hitting : Effective(inters[j]) < INF) => sphere # 0

\* two different spheres at the same, minimum, hit distance: the earlier one won
C3_Witness ==
    /\ pc = "resolved" /\ sphere # 0
    /\ \E j \in Hitting :
          /\ j > sphere
          /\ Effective(inters[j]) = tnear
          /\ scene.spheres[j] # Winner

\* C4: trace returns the background if and only if no sphere reports an
\* intersection with the ray.
C4_BackgroundIffNoHit ==
    pc = "returned" => (result.from = "background" <=> Hitting = {})

\* trace normalised a zero vector: the surface normal at a hit point that is
\* the sphere's centre, or the direction to a light that is at the hit point
NormalizedZero ==
    /\ Shaded
    /\ \/ shaded.toPoint = Zero3
       \/ \E i \in 1..Len(shaded.lights) : shaded.lights[i].toLight = Zero3

\* C6: normalising a zero vector ends trace with a DegenerateGeometry error
\* instead of a colour.
C6_ZeroNormalizeFails == NormalizedZero => result.from = "DegenerateGeometry"

\* C7: intersect reports no hit when tca = dot(center - origin, direction) < 0;
\* for tca >= 0 it reports no hit exactly when d2 = dot(L,L) - tca^2 exceeds
\* radius^2.
C7_IntersectGuards ==
    pc # "scan" =>
        \A i \in 1..Len(scene.spheres) :
            LET s   == scene.spheres[i]
                L   == VSub(s.center, ray.orig)
                tca == Dot(L, ray.dir)
                d2  == FSub(Dot(L, L), FMul(tca, tca))
            IN  /\ tca < 0 => ~inters[i].hit
                /\ tca >= 0 => (inters[i].hit <=> ~(d2 > FMul(s.radius, s.radius)))

\* the ray starts inside a sphere, past its centre: it leaves the sphere through
\* its far side, and intersect reports no hit
C7_Witness ==
    /\ pc = "resolved"
    /\ \E i \in 1..Len(scene.spheres) :
          LET s == scene.spheres[i]
              L == VSub(s.center, ray.orig)
          IN  /\ L[1] * L[1] + L[2] * L[2] + L[3] * L[3] < s.radius * s.radius
              /\ Dot(L, ray.dir) < 0
              /\ ~inters[i].hit

\* C10: every intersection the scan gets has t0 <= t1 and t1 >= 0, the hit
\* distance of a selected sphere is in [0, INF), and the hit point does not lie
\* behind the ray's origin.
C10_HitDistanceRange ==
    /\ pc # "scan" =>
          /\ \A i \in Hitting : inters[i].t0 <= inters[i].t1 /\ inters[i].t1 >= 0
          /\ sphere # 0 => (0 <= tnear /\ tnear < INF)
    /\ Shaded => Dot(VSub(shaded.pointHit, ray.orig), ray.dir) >= 0

\* the ray starts inside the selected sphere: t_near is negative and t_far is
\* the hit distance
C10_Witness ==
    /\ Shaded
    /\ inters[sphere].t0 < 0
    /\ tnear = inters[sphere].t1
    /\ tnear > 0

---------------------------------------------------------------------------
(* Properties of main and save, checked under Spec *)

\* clamp(round(c * 255), 0, 255)
ClampRound(c) ==
    IF c <= 0 THEN 0
    ELSE IF Round(c * 255, SCALE) > 255 THEN 255 ELSE Round(c * 255, SCALE)

\* C5: every channel value c that save reads from the image is written as the
\* integer clamp(round(c * 255), 0, 255).
C5_RoundedClamped ==
    \A k \in 1..Len(out) :
        reads[k].inBounds =>
            \A ch \in 1..3 : out[k][ch] = ClampRound(reads[k].color[ch])

\* C8: save emits exactly width*height triplets, the colour stored for pixel
\* (x, y) at position y*WIDTH + x, and reads no cell outside the image.
C8_RowMajorOutput ==
    pc = "done" =>
        /\ Len(out) = dims.w * dims.h
        /\ \A x \in 0..(dims.w - 1) : \A y \in 0..(dims.h - 1) :
              out[y * dims.w + x + 1] = Encode(canvas[<<y, x>>])
        /\ \A k \in 1..Len(reads) : reads[k].inBounds

\* C9: the render loop writes the cells in the row-major order of the grid,
\* each once; a written cell holds trace of its own primary ray and depends on
\* nothing else, an unwritten one is untouched; the loop is always at its
\* next cell or at its end, and save is called, after width*height writes,
\* with every cell written.
C9_RenderRowMajor ==
    pc \in {"render", "save", "done"} =>
        /\ Len(writes) <= dims.w * dims.h
        /\ \A k \in 1..Len(writes) :
              writes[k] = <<(k - 1) % dims.w, (k - 1) \div dims.w>>
        /\ \A x \in 0..(dims.w - 1) : \A y \in 0..(dims.h - 1) :
              canvas[<<y, x>>] =
                  IF y * dims.w + x < Len(writes)
                  THEN trace(PrimaryRay(x, y, dims.w, dims.h),
                             scene.spheres, scene.lights, scene.background)
                  ELSE Splat(0)
        /\ pc = "render" =>
              /\ px < dims.w /\ py * dims.w + px = Len(writes)
              /\ py < dims.h \/ (py = dims.h /\ px = 0)
        /\ pc \in {"save", "done"} => Len(writes) = dims.w * dims.h

\* the render loop has handed a finished image of several rows and columns,
\* not all of one colour, to save
C9_Witness ==
    /\ pc = "save"
    /\ dims.w > 1 /\ dims.h > 1 /\ dims.w # dims.h
    /\ Len(writes) = dims.w * dims.h
    /\ \E c1 \in DOMAIN canvas : \E c2 \in DOMAIN canvas :
          /\ canvas[c1] # canvas[c2]
          /\ canvas[c1] # scene.background
          /\ canvas[c2] # scene.background

=============================================================================
